---- MODULE Spec2Model ----
(***************************************************************************)
(* A model of apb (src/src/apb/entrypoint.py): one run of main().  The run *)
(* resolves its inputs from the command line and the environment, checks   *)
(* them, fixes the cutoff date, then walks the repositories the search     *)
(* yields; for each it asks for the workflow's runs, records a status      *)
(* entry and may request a repository dispatch; at the end it writes the   *)
(* status file.                                                            *)
(*                                                                         *)
(* The remote API (search, run listing, dispatch) and the two input        *)
(* sources are the environment of the run: their answers are drawn from    *)
(* small sets.  What the remote side answered is kept in history variables *)
(* (yielded, observed, requests, status_file) that the program never       *)
(* reads.  Python's None is the empty tuple, a present value v is <<v>>.   *)
(* Instants are whole seconds; the run captures now once.  The file system *)
(* is taken to accept the final write.                                     *)
(***************************************************************************)
EXTENDS Integers, Sequences, FiniteSets, TLC

----------------------------------------------------------------------------
(* Bounds of the model *)

\* repositories the search can yield
NumRepos == 2
\* workflow runs one listing can hold
MaxRuns == 2
\* instants are 0..MaxTime; the run starts at MaxTime
MaxTime == 2
\* max_rebuilds is given as one of -1..MaxRebuildLimit, or left to its default
MaxRebuildLimit == 2

----------------------------------------------------------------------------
(* Values *)

None == <<>>
Some(v) == <<v>>

\* os.environ.get("INPUT_MAX_REBUILDS", "10")
DefaultMaxRebuilds == 10

\* os.environ.get("INPUT_WRITE_FILENAME", "apb.json")
DefaultWriteFilename == "apb.json"

\* the locals of main() that lines 103-142 resolve, in the order of the code
InputOrder ==
    << "access_token", "build_age", "event_type", "github_workspace_dir",
       "max_rebuilds", "repo_query", "workflow_id", "write_filename" >>

\* what a source (command line or environment) can hold for an input
SourceValues(f) ==
    CASE f = "build_age" -> {None, Some("1s"), Some("soon")}
      [] f = "max_rebuilds" -> {None} \cup {Some(n) : n \in (-1)..MaxRebuildLimit}
      [] f = "write_filename" -> {None, Some(DefaultWriteFilename)}
      [] OTHER -> {None, Some(f)}

\* the second argument of os.environ.get, None where the code gives none
DefaultOf(f) ==
    CASE f = "max_rebuilds" -> Some(DefaultMaxRebuilds)
      [] f = "write_filename" -> Some(DefaultWriteFilename)
      [] OTHER -> None

\* args[...] if args[...] is not None else os.environ.get(..., default)
ResolveInput(arg, env, default) ==
    IF arg # None THEN arg ELSE IF env # None THEN env ELSE default

\* logging._nameToLevel.keys() - ["NOTSET", "WARN"], lowered
log_levels == {"critical", "fatal", "error", "warning", "info", "debug"}

\* str.lower() on the level names a run is given here
Lower(s) ==
    CASE s = "DEBUG" -> "debug"
      [] s = "Info" -> "info"
      [] OTHER -> s

LogLevelArgs == {"info", "Info", "DEBUG", "verbose"}

\* pytimeparse.parse: seconds of a duration text, None when it is none
pytimeparse_parse(s) ==
    CASE s = "1s" -> Some(1)
      [] OTHER -> None

\* babel's format_timedelta for spans under a minute
format_timedelta(d) ==
    LET n == IF d < 0 THEN -d ELSE d
    IN  IF n = 1 THEN "1 second" ELSE ToString(n) \o " seconds"

Repositories == 1..NumRepos
Branches == {"main", "feature"}

\* a repository handle of the search result; full_name identifies it
Repo(r) == [full_name |-> r, private |-> (r % 2 = 0), default_branch |-> "main"]

Times == 0..MaxTime

Runs == [created_at : Times, head_branch : Branches]

\* the listing is newest first
RunLists ==
    { rs \in UNION { [1..n -> Runs] : n \in 0..MaxRuns } :
        \A i \in 1..(Len(rs) - 1) : rs[i].created_at >= rs[i + 1].created_at }

\* answers of GET /repos/{full_name}/actions/workflows/{workflow_id}/runs
Responses ==
    { [status_code |-> c, workflow_runs |-> << >>] : c \in {404, 500} }
        \cup { [status_code |-> 200, workflow_runs |-> rs] : rs \in RunLists }

----------------------------------------------------------------------------
(* Pure parts of main() and get_last_run() *)

\* dict[k] = v
SetItem(d, k, v) == (k :> v) @@ d

EmptyDict == [k \in {} |-> None]

\* a variant of missing_input without the check of workflow_id
missing_input_without_workflow_id(c) ==
    CASE c["access_token"] = None -> Some("access_token")
      [] c["access_token"] # None /\ c["build_age"] = None -> Some("build_age")
      [] c["access_token"] # None /\ c["build_age"] # None
            /\ c["event_type"] = None -> Some("event_type")
      [] c["access_token"] # None /\ c["build_age"] # None
            /\ c["event_type"] # None
            /\ c["github_workspace_dir"] = None -> Some("github_workspace_dir")
      [] c["access_token"] # None /\ c["build_age"] # None
            /\ c["event_type"] # None /\ c["github_workspace_dir"] # None
            /\ c["repo_query"] = None -> Some("repo_query")
      [] OTHER -> None

\* the sanity checks: the first local that is None, in the order of the checks
missing_input(c) ==
    CASE c["access_token"] = None -> Some("access_token")
      [] c["access_token"] # None /\ c["build_age"] = None -> Some("build_age")
      [] c["access_token"] # None /\ c["build_age"] # None
            /\ c["event_type"] = None -> Some("event_type")
      [] c["access_token"] # None /\ c["build_age"] # None
            /\ c["event_type"] # None
            /\ c["github_workspace_dir"] = None -> Some("github_workspace_dir")
      [] c["access_token"] # None /\ c["build_age"] # None
            /\ c["event_type"] # None /\ c["github_workspace_dir"] # None
            /\ c["repo_query"] = None -> Some("repo_query")
      [] c["access_token"] # None /\ c["build_age"] # None
            /\ c["event_type"] # None /\ c["github_workspace_dir"] # None
            /\ c["repo_query"] # None /\ c["workflow_id"] = None -> Some("workflow_id")
      [] c["access_token"] # None /\ c["build_age"] # None
            /\ c["event_type"] # None /\ c["github_workspace_dir"] # None
            /\ c["repo_query"] # None /\ c["workflow_id"] # None
            /\ c["write_filename"] = None -> Some("write_filename")
      [] OTHER -> None

\* get_last_run, after the request: the creation time of the first run listed
get_last_run(response) ==
    IF response.status_code # 200
    THEN None
    ELSE IF Len(response.workflow_runs) = 0
         THEN None
         ELSE Some(response.workflow_runs[1].created_at)

\* a variant of absent_status that also sets event_sent
absent_status_with_event_sent ==
    SetItem(SetItem(EmptyDict, "workflow", None), "event_sent", FALSE)

\* the entry of a repository for which get_last_run gave None
absent_status == SetItem(EmptyDict, "workflow", None)

\* the entry of a repository whose workflow has run, before the rebuild decision
present_status(workflow_id, now_, last_run_) ==
    SetItem(
        SetItem(
            SetItem(
                SetItem(EmptyDict, "workflow", Some(workflow_id)),
                "run_age_seconds", now_ - last_run_),
            "run_age", format_timedelta(now_ - last_run_)),
        "event_sent", FALSE)

\* a variant of needs_rebuild that takes a run at the cutoff as too old
needs_rebuild_at_cutoff(last_run_, past_date_) == last_run_ <= past_date_

\* if last_run < past_date
needs_rebuild(last_run_, past_date_) == last_run_ < past_date_

\* a variant of may_rebuild that allows one dispatch more
may_rebuild_once_more(max_rebuilds_, rebuilds_triggered_) ==
    max_rebuilds_ = 0 \/ rebuilds_triggered_ <= max_rebuilds_

\* a variant of may_rebuild in which 0 is a budget like any other
may_rebuild_zero_is_none(max_rebuilds_, rebuilds_triggered_) ==
    rebuilds_triggered_ < max_rebuilds_

\* if max_rebuilds == 0 or rebuilds_triggered < max_rebuilds
may_rebuild(max_rebuilds_, rebuilds_triggered_) ==
    max_rebuilds_ = 0 \/ rebuilds_triggered_ < max_rebuilds_

----------------------------------------------------------------------------
(* State *)

VARIABLES
    pc,                 \* where main() stands
    cfg,                \* the resolved inputs, None until resolved or when absent
    resolved,           \* how many inputs of InputOrder are resolved
    now,                \* datetime.utcnow(), captured once
    build_age_seconds,  \* the parsed build age, None when unparseable
    past_date,          \* now - build_age_seconds
    rebuilds_triggered, \* the rebuild counter
    all_repo_status,    \* the report being built
    repo,               \* the loop variable
    last_run,           \* the result of get_last_run for repo
    exit_status,        \* the exit status of the process, None while it runs
    searched,           \* history: the search request was issued
    yielded,            \* history: the repositories the search yielded, in order
    observed,           \* history: what the run listing answered, per repository
                        \* (status_code None: the request raised)
    requests,           \* history: the dispatch requests made, in order
    status_file         \* history: the contents written to the status file, in order

vars ==
    << pc, cfg, resolved, now, build_age_seconds, past_date, rebuilds_triggered,
       all_repo_status, repo, last_run, exit_status, searched, yielded, observed,
       requests, status_file >>

locals == << now, build_age_seconds, past_date, rebuilds_triggered, all_repo_status,
             repo, last_run >>
remote == << searched, yielded, observed, requests, status_file >>

max_rebuilds == cfg["max_rebuilds"][1]

\* the newest run of a listing, and the newest on a branch
Newest(rs) == IF Len(rs) = 0 THEN None ELSE Some(rs[1].created_at)
NewestOn(rs, branch) ==
    LET on == SelectSeq(rs, LAMBDA x : x.head_branch = branch)
    IN  IF Len(on) = 0 THEN None ELSE Some(on[1].created_at)

Init ==
    /\ pc = "start"
    /\ cfg = [f \in {InputOrder[i] : i \in 1..Len(InputOrder)} |-> None]
    /\ resolved = 0
    /\ now = 0
    /\ build_age_seconds = None
    /\ past_date = 0
    /\ rebuilds_triggered = 0
    /\ all_repo_status = EmptyDict
    /\ repo = None
    /\ last_run = None
    /\ exit_status = None
    /\ searched = FALSE
    /\ yielded = << >>
    /\ observed = EmptyDict
    /\ requests = << >>
    /\ status_file = << >>

----------------------------------------------------------------------------
(* The steps of main() *)

\* lines 81-100: docopt, the log level check, logging set up
CheckLogLevel ==
    /\ pc = "start"
    /\ \E level \in LogLevelArgs :
         IF Lower(level) \notin log_levels
         THEN /\ pc' = "exit"
              /\ exit_status' = Some((-1) % 256)
         ELSE /\ pc' = "inputs"
              /\ exit_status' = exit_status
    /\ UNCHANGED << cfg, resolved, locals, remote >>

\* lines 103-142: the next local is taken from the command line, else from the
\* environment, else from its default
ResolveNextInput ==
    /\ pc = "inputs"
    /\ resolved < Len(InputOrder)
    /\ LET f == InputOrder[resolved + 1]
       IN  \E arg \in SourceValues(f), env \in SourceValues(f) :
             cfg' = [cfg EXCEPT ![f] = ResolveInput(arg, env, DefaultOf(f))]
    /\ resolved' = resolved + 1
    /\ UNCHANGED << pc, exit_status, locals, remote >>

\* lines 144-181: a missing input ends the run with sys.exit(-1)
SanityChecks ==
    /\ pc = "inputs"
    /\ resolved = Len(InputOrder)
    /\ IF missing_input(cfg) # None
       THEN /\ pc' = "exit"
            /\ exit_status' = Some((-1) % 256)
       ELSE /\ pc' = "setup"
            /\ exit_status' = exit_status
    /\ UNCHANGED << cfg, resolved, locals, remote >>

\* lines 183-208: the time calculations, the API objects, the lazy search
\* generator, the counter and the report.  relativedelta(seconds=None) raises.
SetupTime ==
    /\ pc = "setup"
    /\ now' = MaxTime
    /\ build_age_seconds' = pytimeparse_parse(cfg["build_age"][1])
    /\ IF build_age_seconds' = None
       THEN /\ pc' = "exit"
            /\ exit_status' = Some(1)
            /\ UNCHANGED << past_date, all_repo_status >>
       ELSE /\ pc' = "loop"
            /\ exit_status' = exit_status
            /\ past_date' = now' - build_age_seconds'[1]
            /\ all_repo_status' =
                 [ build_age_seconds |-> build_age_seconds'[1],
                   build_age |-> cfg["build_age"][1],
                   ran_at |-> ToString(now'),
                   repositories |-> EmptyDict,
                   repository_query |-> cfg["repo_query"][1] ]
    /\ rebuilds_triggered' = 0
    /\ UNCHANGED << cfg, resolved, repo, last_run, remote >>

\* lines 209-211: the search yields its next repository; its empty entry is
\* put in the report
NextRepo ==
    /\ pc = "loop"
    /\ \E r \in Repositories :
         /\ \A i \in 1..Len(yielded) : yielded[i] # r
         /\ repo' = Some(Repo(r))
         /\ yielded' = Append(yielded, r)
         /\ all_repo_status' =
              [all_repo_status EXCEPT !.repositories = SetItem(@, r, EmptyDict)]
    /\ searched' = TRUE
    /\ pc' = "get_last_run"
    /\ UNCHANGED << cfg, resolved, now, build_age_seconds, past_date,
                    rebuilds_triggered, last_run, exit_status, observed, requests,
                    status_file >>

\* line 209: the search has no more repositories
EndOfSearch ==
    /\ pc = "loop"
    /\ searched' = TRUE
    /\ pc' = "write"
    /\ UNCHANGED << cfg, resolved, locals, exit_status, yielded, observed, requests,
                    status_file >>

\* line 212, lines 58-76: the run listing is requested and answers
GetLastRun ==
    /\ pc = "get_last_run"
    /\ \E response \in Responses :
         /\ last_run' = get_last_run(response)
         /\ observed' =
              SetItem(observed, repo[1].full_name,
                  [ status_code |-> Some(response.status_code),
                    newest |-> Newest(response.workflow_runs),
                    newest_default |->
                        NewestOn(response.workflow_runs, repo[1].default_branch) ])
    /\ pc' = "record"
    /\ UNCHANGED << cfg, resolved, now, build_age_seconds, past_date,
                    rebuilds_triggered, all_repo_status, repo, exit_status, searched,
                    yielded, requests, status_file >>

\* lines 63-65: session.get raises (no connection, a timeout); nothing catches it
GetLastRunRaises ==
    /\ pc = "get_last_run"
    /\ observed' =
         SetItem(observed, repo[1].full_name,
             [status_code |-> None, newest |-> None, newest_default |-> None])
    /\ pc' = "exit"
    /\ exit_status' = Some(1)
    /\ UNCHANGED << cfg, resolved, locals, searched, yielded, requests, status_file >>

\* lines 213-223: the entry of the repository
RecordStatus ==
    /\ pc = "record"
    /\ IF last_run = None
       THEN /\ all_repo_status' =
                 [all_repo_status EXCEPT
                    !.repositories = SetItem(@, repo[1].full_name, absent_status)]
            /\ pc' = "loop"
       ELSE /\ all_repo_status' =
                 [all_repo_status EXCEPT
                    !.repositories =
                        SetItem(@, repo[1].full_name,
                            present_status(cfg["workflow_id"][1], now, last_run[1]))]
            /\ pc' = "rebuild"
    /\ UNCHANGED << cfg, resolved, now, build_age_seconds, past_date,
                    rebuilds_triggered, repo, last_run, exit_status, remote >>

\* lines 224-236: the rebuild decision.  create_repository_dispatch answers
\* True (accepted), False (rejected) or raises; its result is not looked at.
Rebuild ==
    /\ pc = "rebuild"
    /\ IF needs_rebuild(last_run[1], past_date)
            /\ may_rebuild(max_rebuilds, rebuilds_triggered)
       THEN /\ rebuilds_triggered' = rebuilds_triggered + 1
            /\ \E outcome \in {"accepted", "rejected", "error"} :
                 /\ requests' =
                      Append(requests,
                          [ repo |-> repo[1].full_name,
                            event_type |-> cfg["event_type"][1],
                            outcome |-> outcome ])
                 /\ IF outcome = "error"
                    THEN /\ pc' = "exit"
                         /\ exit_status' = Some(1)
                         /\ UNCHANGED all_repo_status
                    ELSE /\ pc' = "loop"
                         /\ exit_status' = exit_status
                         /\ all_repo_status' =
                              [all_repo_status EXCEPT
                                 !.repositories[repo[1].full_name] =
                                     SetItem(@, "event_sent", TRUE)]
       ELSE /\ pc' = "loop"
            /\ UNCHANGED << rebuilds_triggered, all_repo_status, exit_status, requests >>
    /\ UNCHANGED << cfg, resolved, now, build_age_seconds, past_date, repo, last_run,
                    searched, yielded, observed, status_file >>

\* lines 238-243: the report is written to the status file
WriteStatusFile ==
    /\ pc = "write"
    /\ status_file' = Append(status_file, all_repo_status)
    /\ pc' = "exit"
    /\ exit_status' = Some(0)
    /\ UNCHANGED << cfg, resolved, locals, searched, yielded, observed, requests >>

Next ==
    \/ CheckLogLevel
    \/ ResolveNextInput
    \/ SanityChecks
    \/ SetupTime
    \/ NextRepo
    \/ EndOfSearch
    \/ GetLastRun
    \/ GetLastRunRaises
    \/ RecordStatus
    \/ Rebuild
    \/ WriteStatusFile

Spec == Init /\ [][Next]_vars

----------------------------------------------------------------------------
(* Vocabulary of the properties *)

Range(q) == {q[i] : i \in 1..Len(q)}

Min(a, b) == IF a < b THEN a ELSE b

\* the counter and the report exist: main() has passed line 208
Running ==
    \/ pc \in {"loop", "get_last_run", "record", "rebuild", "write"}
    \/ pc = "exit" /\ searched

\* the loop body has run to its end for r
Finished(r) ==
    /\ r \in Range(yielded)
    /\ \/ r # yielded[Len(yielded)]
       \/ pc \in {"loop", "write"}
       \/ pc = "exit" /\ exit_status = Some(0)

Entry(r) == all_repo_status.repositories[r]

Requested(r) == \E i \in 1..Len(requests) : requests[i].repo = r

\* the newest run the listing showed for r is strictly older than the cutoff
Qualifies(r) ==
    /\ r \in DOMAIN observed
    /\ observed[r].newest # None
    /\ observed[r].newest[1] < past_date

\* the listing answered for r with no workflow (a status other than 200) or no run
Absent(r) ==
    /\ r \in DOMAIN observed
    /\ observed[r].status_code # None
    /\ observed[r].newest = None

FinishedInOrder == SelectSeq(yielded, Finished)
QualifyingInOrder == SelectSeq(FinishedInOrder, Qualifies)

Required ==
    {"access_token", "build_age", "event_type", "github_workspace_dir", "repo_query",
     "workflow_id"}

\* a required input was resolved to nothing, or the build age does not parse
ConfigInvalid ==
    \/ \E i \in 1..resolved : InputOrder[i] \in Required /\ cfg[InputOrder[i]] = None
    \/ /\ resolved >= 2
       /\ cfg["build_age"] # None
       /\ pytimeparse_parse(cfg["build_age"][1]) = None

ConfigValid == resolved = Len(InputOrder) /\ ~ConfigInvalid

NoNetworkCall ==
    /\ ~searched
    /\ yielded = << >>
    /\ observed = EmptyDict
    /\ requests = << >>

----------------------------------------------------------------------------
(* C1 *)

\* C1, as stated: whenever max_rebuilds is not 0, the rebuild counter and the
\* number of dispatch requests are at most max_rebuilds; when it is 0 every
\* evaluated repository whose last run is older than the cutoff is dispatched.
C1_CounterAtMostMaxWheneverNonzero ==
    Running =>
        /\ max_rebuilds # 0 =>
              rebuilds_triggered <= max_rebuilds /\ Len(requests) <= max_rebuilds
        /\ max_rebuilds = 0 =>
              \A r \in Range(yielded) : Finished(r) /\ Qualifies(r) => Requested(r)

\* C1, amended: for a positive max_rebuilds the rebuild counter and the number
\* of dispatch requests are at most max_rebuilds; for a negative max_rebuilds
\* both stay 0; for max_rebuilds = 0 every evaluated repository whose last run
\* is older than the cutoff is dispatched.
C1_CounterAtMostPositiveMax ==
    Running =>
        /\ max_rebuilds > 0 =>
              rebuilds_triggered <= max_rebuilds /\ Len(requests) <= max_rebuilds
        /\ max_rebuilds < 0 => rebuilds_triggered = 0 /\ requests = << >>
        /\ max_rebuilds = 0 =>
              \A r \in Range(yielded) : Finished(r) /\ Qualifies(r) => Requested(r)

\* the budget was binding: a run with max_rebuilds = 1 that sent its one
\* dispatch and then passed over a second qualifying repository
C1_Witness ==
    /\ pc = "exit"
    /\ exit_status = Some(0)
    /\ max_rebuilds = 1
    /\ rebuilds_triggered = 1
    /\ Len(QualifyingInOrder) = 2
    /\ ~Requested(QualifyingInOrder[2])

----------------------------------------------------------------------------
(* C2 *)

\* C2: among the repositories the loop has evaluated, those whose last run is
\* strictly older than the cutoff have event_sent true for the first
\* min(max_rebuilds, their number) of them in enumeration order (all of them
\* when max_rebuilds = 0) and event_sent false for the rest, and the
\* repositories a dispatch was requested for are exactly those first ones.
C2_FirstQualifyingAreDispatched ==
    Running =>
        LET q == QualifyingInOrder
            k == IF max_rebuilds = 0
                 THEN Len(q)
                 ELSE IF max_rebuilds < 0 THEN 0 ELSE Min(max_rebuilds, Len(q))
        IN  /\ \A i \in 1..Len(q) : Entry(q[i]).event_sent = (i <= k)
            /\ {r \in Range(FinishedInOrder) : Requested(r)} = {q[i] : i \in 1..k}

\* with max_rebuilds = 1, a first qualifying repository was dispatched and the
\* next qualifying one was not
C2_Witness ==
    /\ pc = "loop"
    /\ max_rebuilds = 1
    /\ Len(QualifyingInOrder) = 2
    /\ Entry(QualifyingInOrder[1]).event_sent
    /\ ~Entry(QualifyingInOrder[2]).event_sent

----------------------------------------------------------------------------
(* C3 *)

\* C3: an evaluated repository whose run listing answered with a status other
\* than 200 or with no run has the entry {"workflow": null} and nothing else,
\* in the report and in the written file, and no dispatch is requested for it.
C3_AbsentWorkflowEntry ==
    Running =>
        \A r \in Range(yielded) :
            Finished(r) /\ Absent(r) =>
                /\ DOMAIN Entry(r) = {"workflow"}
                /\ Entry(r)["workflow"] = None
                /\ ~Requested(r)
                /\ \A i \in 1..Len(status_file) :
                      status_file[i].repositories[r] = ("workflow" :> None)

\* a written report with a repository whose workflow was not found and one
\* whose workflow has no run
C3_Witness ==
    /\ pc = "exit"
    /\ Len(status_file) = 1
    /\ \E r1, r2 \in Range(yielded) :
          /\ observed[r1].status_code = Some(404)
          /\ observed[r2].status_code = Some(200)
          /\ observed[r2].newest = None
          /\ status_file[1].repositories[r1] = ("workflow" :> None)
          /\ status_file[1].repositories[r2] = ("workflow" :> None)

----------------------------------------------------------------------------
(* C4 *)

\* C4: whatever the two visibility settings are, at the end of the run the
\* keys of the report are the public repositories enumerated, and the private
\* ones when "include non-public" is set and "mask non-public" is not; no
\* other private repository is dispatched.
C4_KeysAreVisibilityEligible ==
    \A include_non_public, mask_non_public \in BOOLEAN :
        pc = "exit" /\ exit_status = Some(0) =>
            LET eligible ==
                  { r \in Range(yielded) :
                      ~Repo(r).private \/ (include_non_public /\ ~mask_non_public) }
            IN  /\ DOMAIN status_file[1].repositories = eligible
                /\ \A r \in Range(yielded) \ eligible : ~Requested(r)

----------------------------------------------------------------------------
(* C5 *)

\* C5: event_sent is true for a repository exactly when a dispatch was
\* requested for it and the remote API accepted it, and the rebuild counter is
\* the number of accepted dispatches.
C5_EventSentIffAccepted ==
    Running =>
        /\ \A r \in Range(yielded) :
              "event_sent" \in DOMAIN Entry(r) =>
                  ( Entry(r).event_sent
                      <=> \E i \in 1..Len(requests) :
                            requests[i].repo = r /\ requests[i].outcome = "accepted" )
        /\ rebuilds_triggered =
              Cardinality({i \in 1..Len(requests) : requests[i].outcome = "accepted"})

----------------------------------------------------------------------------
(* C6 *)

\* the run listing or the dispatch request raised for r
Failed(r) ==
    \/ r \in DOMAIN observed /\ observed[r].status_code = None
    \/ \E i \in 1..Len(requests) : requests[i].repo = r /\ requests[i].outcome = "error"

\* C6: a run in which a request raised for some repository still ends normally
\* with the report written, and that repository has at least a workflow entry.
C6_FailureDoesNotAbort ==
    pc = "exit" /\ (\E r \in Range(yielded) : Failed(r)) =>
        /\ exit_status = Some(0)
        /\ Len(status_file) = 1
        /\ \A r \in Range(yielded) : Failed(r) => "workflow" \in DOMAIN Entry(r)

----------------------------------------------------------------------------
(* C7 *)

\* C7: the status file is written at most once, nothing is evaluated after the
\* write, and a run with a valid configuration has written it exactly once
\* when it ends.
C7_StatusFileWrittenOnce ==
    /\ Len(status_file) <= 1
    /\ Len(status_file) = 1 => pc = "exit"
    /\ pc = "exit" /\ ConfigValid => Len(status_file) = 1

----------------------------------------------------------------------------
(* C8 *)

\* C8: once a required input is resolved to nothing, or the build age does not
\* parse, the run never reaches the loop: no search, no run listing, no
\* dispatch request and no write of the status file, and when it has ended
\* its exit status is not 0.
C8_InvalidConfigStopsBeforeNetwork ==
    ConfigInvalid =>
        /\ NoNetworkCall
        /\ status_file = << >>
        /\ pc \in {"inputs", "setup", "exit"}
        /\ pc = "exit" => exit_status # None /\ exit_status # Some(0)

\* a run that ended on sys.exit(-1) because the workflow identifier is missing
C8_Witness ==
    /\ pc = "exit"
    /\ resolved = Len(InputOrder)
    /\ cfg["workflow_id"] = None
    /\ \A f \in Required \ {"workflow_id"} : cfg[f] # None
    /\ exit_status = Some(255)

----------------------------------------------------------------------------
(* C9 *)

\* C9: a repository whose newest listed run is not strictly older than the
\* cutoff gets no dispatch request, its entry has event_sent false once it is
\* evaluated, and the rebuild counter moves only with a dispatch request.
C9_NoDispatchUnlessOlderThanCutoff ==
    Running =>
        /\ rebuilds_triggered = Len(requests)
        /\ \A r \in DOMAIN observed :
              observed[r].newest # None /\ observed[r].newest[1] >= past_date =>
                  /\ ~Requested(r)
                  /\ Finished(r) => Entry(r).event_sent = FALSE

\* a repository whose last run was created exactly at the cutoff was
\* evaluated, with budget left
C9_Witness ==
    /\ pc = "loop"
    /\ max_rebuilds = 0
    /\ \E r \in Range(yielded) :
          /\ Finished(r)
          /\ observed[r].newest = Some(past_date)
          /\ Entry(r).event_sent = FALSE

----------------------------------------------------------------------------
(* C10 *)

\* C10: the last run time a repository is evaluated with is the creation time
\* of the newest listed run on its default branch, and none when no listed run
\* is on the default branch.
C10_LastRunIsOnDefaultBranch ==
    pc = "record" => last_run = observed[repo[1].full_name].newest_default

====
